---- MODULE Spec2Model ----
(***************************************************************************)
(* Model of module/zfs/spa_stats.c: the per-pool read history.             *)
(*                                                                         *)
(* One spa_stats_history_t (ssh) is modelled: its lock, count, size, list, *)
(* private cursor and kstat.  Producer threads run spa_read_history_add    *)
(* one source statement group at a time; the kstat framework calls         *)
(* spa_read_history_update and spa_read_history_addr with ssh->lock held;  *)
(* the module parameters zfs_read_history / zfs_read_history_hits are      *)
(* written at any time; one owner thread runs spa_read_history_destroy.    *)
(*                                                                         *)
(* A spa_read_history_t is named by the number of the call that allocated  *)
(* it (1..MaxRecords), 0 is the NULL pointer.  list is head-first:         *)
(* list[1] is list_head(), list[Len(list)] is list_tail().                 *)
(***************************************************************************)
EXTENDS Integers, Sequences, FiniteSets, TLC

\* ---- bounds of the model
NumThreads == 2      \* producer threads
MaxRecords == 3      \* records allocated over the whole run
MaxCap     == 2      \* largest value written to zfs_read_history
MaxAddr    == 3      \* spa_read_history_addr calls in one locked session

\* ---- program constants
NULL       == 0
RecordSize == 112    \* sizeof(spa_read_history_t), LP64

Threads == 1 .. NumThreads
Records == 1 .. MaxRecords
Free    == 0                    \* ssh->lock has no owner
KstatOwner   == NumThreads + 1  \* the kstat framework thread owns ssh->lock
DestroyOwner == NumThreads + 2  \* the thread in spa_read_history_destroy

VARIABLES
    zfs_read_history,       \* module parameter, line 28
    zfs_read_history_hits,  \* module parameter, line 33
    lock,                   \* owner of ssh->lock, Free if none
    count,                  \* ssh->count
    size,                   \* ssh->size
    list,                   \* ssh->list, head first
    private,                \* ssh->private
    ks_ndata,               \* ksp->ks_ndata
    ks_data_size,           \* ksp->ks_data_size
    srhs,                   \* the spa_read_history_t objects
    uids,                   \* history: the uids in the order line 217 assigned them
    pc, aflags, excl, srh, caps, capLast, old,   \* per producer thread
    kpc, krw, kn, out,      \* the kstat framework thread
    dpc                     \* progress of spa_read_history_destroy

cfgVars  == <<zfs_read_history, zfs_read_history_hits>>
sshVars  == <<lock, count, size, list, private>>
kspVars  == <<ks_ndata, ks_data_size>>
heapVars == <<srhs, uids>>
thrVars  == <<pc, aflags, excl, srh, caps, capLast, old>>
kstVars  == <<kpc, krw, kn, out>>
vars == <<cfgVars, sshVars, kspVars, heapVars, thrVars, kstVars, dpc>>

\* ---- list_t primitives (sys/list.h semantics on the head-first sequence)
list_head(l) == IF l = <<>> THEN NULL ELSE l[1]
list_tail(l) == IF l = <<>> THEN NULL ELSE l[Len(l)]
Linked(l) == {l[i] : i \in 1 .. Len(l)}
IndexOf(l, e) == CHOOSE i \in 1 .. Len(l) : l[i] = e
\* list_prev(): the element one step nearer the head, NULL at the head
list_prev(l, e) == IF IndexOf(l, e) = 1 THEN NULL ELSE l[IndexOf(l, e) - 1]
list_insert_head(l, e) == <<e>> \o l
list_remove_tail(l) == IF l = <<>> THEN l ELSE SubSeq(l, 1, Len(l) - 1)

\* ---- the heap of spa_read_history_t objects.  st: "none" (never
\* allocated), "alloc", "freed"; uid and cached (aflags & ARC_CACHED) are
\* the struct's fields; excl remembers that the call which built the record
\* saw ARC_CACHED with zfs_read_history_hits == 0 at line 201.  The fields
\* of a freed object are dead; its uid is kept as history.
NoRecord == [st |-> "none", uid |-> -1, cached |-> FALSE, excl |-> FALSE]
Allocated == {e \in Records : srhs[e].st # "none"}
NextRecord == Cardinality(Allocated) + 1

kmem_free(h, e) ==
    IF e = NULL THEN h
    ELSE [h EXCEPT ![e] = [st |-> "freed", uid |-> h[e].uid, cached |-> FALSE, excl |-> FALSE]]

RECURSIVE FreeAll(_, _)
FreeAll(h, l) == IF l = <<>> THEN h ELSE FreeAll(kmem_free(h, l[1]), Tail(l))

\* ---- state after spa_read_history_init (lines 139-162).  The module
\* parameters may already have been set when the pool is created.
Init ==
    /\ zfs_read_history \in 0 .. MaxCap
    /\ zfs_read_history_hits \in {0, 1}
    /\ lock = Free
    /\ count = 0
    /\ size = 0
    /\ list = <<>>
    /\ private = NULL
    /\ ks_ndata = 0
    /\ ks_data_size = 0
    /\ srhs = [e \in Records |-> NoRecord]
    /\ uids = <<>>
    /\ pc = [t \in Threads |-> "idle"]
    /\ aflags = [t \in Threads |-> FALSE]
    /\ excl = [t \in Threads |-> FALSE]
    /\ srh = [t \in Threads |-> NULL]
    /\ caps = [t \in Threads |-> {}]
    /\ capLast = [t \in Threads |-> -1]
    /\ old = [t \in Threads |-> <<>>]
    /\ kpc = "idle"
    /\ krw = "none"
    /\ kn = 0
    /\ out = <<>>
    /\ dpc = "live"

\* ---- module_param writes (lines 243, 246): any time, no lock
\* faulty variant: a write to zfs_read_history trims the buffer at once
SetReadHistoryTrims(v) ==
    /\ v # zfs_read_history
    /\ zfs_read_history' = v
    /\ lock = Free
    /\ size' = IF size > v THEN v ELSE size
    /\ list' = SubSeq(list, 1, size')
    /\ srhs' = FreeAll(srhs, SubSeq(list, size' + 1, Len(list)))
    /\ UNCHANGED <<zfs_read_history_hits, lock, count, private, kspVars, uids, thrVars, kstVars, dpc>>

SetReadHistory(v) ==
    /\ v # zfs_read_history
    /\ zfs_read_history' = v
    /\ UNCHANGED <<zfs_read_history_hits, sshVars, kspVars, heapVars, thrVars, kstVars, dpc>>

SetReadHistoryHits(v) ==
    /\ v # zfs_read_history_hits
    /\ zfs_read_history_hits' = v
    /\ UNCHANGED <<zfs_read_history, sshVars, kspVars, heapVars, thrVars, kstVars, dpc>>

\* ---- spa_read_history_add (lines 189-228), thread t

\* the call returns: the thread's locals die
Return(t) ==
    /\ pc' = [pc EXCEPT ![t] = "idle"]
    /\ aflags' = [aflags EXCEPT ![t] = FALSE]
    /\ excl' = [excl EXCEPT ![t] = FALSE]
    /\ srh' = [srh EXCEPT ![t] = NULL]
    /\ caps' = [caps EXCEPT ![t] = {}]
    /\ capLast' = [capLast EXCEPT ![t] = -1]
    /\ old' = [old EXCEPT ![t] = <<>>]

\* calls that may still allocate a record
Pending == {t \in Threads : pc[t] \in {"gate1", "gate2", "alloc"}}

\* line 190: the read path calls in with aflags (cached: aflags &
\* ARC_CACHED).  The pool's teardown admits no new read once
\* spa_read_history_destroy has begun; calls in flight run on.
AddCall(t, cached) ==
    /\ pc[t] = "idle"
    /\ dpc = "live"
    /\ Cardinality(Allocated) + Cardinality(Pending) < MaxRecords
    /\ pc' = [pc EXCEPT ![t] = "gate1"]
    /\ aflags' = [aflags EXCEPT ![t] = cached]
    /\ UNCHANGED <<cfgVars, sshVars, kspVars, heapVars, excl, srh, caps, capLast, old, kstVars, dpc>>

\* faulty variant of line 198: the test of ssh->size is missing
Gate1SkipsIgnoresSize == zfs_read_history = 0

\* line 198: the first gate reads zfs_read_history and ssh->size without the lock
Gate1Skips == zfs_read_history = 0 /\ size = 0

AddGate1(t) ==
    /\ pc[t] = "gate1"
    /\ IF Gate1Skips
       THEN Return(t)
       ELSE /\ pc' = [pc EXCEPT ![t] = "gate2"]
            /\ UNCHANGED <<aflags, excl, srh, caps, capLast, old>>
    /\ UNCHANGED <<cfgVars, sshVars, kspVars, heapVars, kstVars, dpc>>

\* faulty variant of the second gate: the cache-hit test is missing
Gate2SkipsNever(cached) == FALSE

\* line 201: the second gate
Gate2Skips(cached) == zfs_read_history_hits = 0 /\ cached

AddGate2(t) ==
    /\ pc[t] = "gate2"
    /\ IF Gate2Skips(aflags[t])
       THEN Return(t)
       ELSE /\ pc' = [pc EXCEPT ![t] = "alloc"]
            /\ excl' = [excl EXCEPT ![t] = (zfs_read_history_hits = 0 /\ aflags[t])]
            /\ UNCHANGED <<aflags, srh, caps, capLast, old>>
    /\ UNCHANGED <<cfgVars, sshVars, kspVars, heapVars, kstVars, dpc>>

\* lines 204-213: kmem_zalloc(KM_PUSHPAGE) sleeps until it succeeds; the
\* fields are filled in
AddAlloc(t) ==
    /\ pc[t] = "alloc"
    /\ srh' = [srh EXCEPT ![t] = NextRecord]
    /\ srhs' = [srhs EXCEPT ![NextRecord] =
                    [st |-> "alloc", uid |-> -1, cached |-> aflags[t], excl |-> excl[t]]]
    /\ pc' = [pc EXCEPT ![t] = "lock"]
    /\ UNCHANGED <<cfgVars, sshVars, kspVars, uids, aflags, excl, caps, capLast, old, kstVars, dpc>>

\* lines 204-205 when kmem_zalloc returns NULL: there is no test of srh, the
\* strlcpy into srh->origin writes through the NULL pointer and the thread
\* takes a fault
AddAllocFail(t) ==
    /\ pc[t] = "alloc"
    /\ pc' = [pc EXCEPT ![t] = "oops"]
    /\ UNCHANGED <<cfgVars, sshVars, kspVars, heapVars, aflags, excl, srh, caps, capLast, old, kstVars, dpc>>

\* line 215: mutex_enter(&ssh->lock).  On a mutex that mutex_destroy has
\* already run on the behaviour is undefined: the thread faults or the
\* stale mutex still works.
AddLock(t) ==
    /\ pc[t] = "lock"
    /\ lock = Free
    /\ \/ /\ lock' = t
          /\ pc' = [pc EXCEPT ![t] = "insert"]
       \/ /\ dpc = "destroyed"
          /\ pc' = [pc EXCEPT ![t] = "oops"]
          /\ UNCHANGED lock
    /\ UNCHANGED <<cfgVars, count, size, list, private, kspVars, heapVars, aflags, excl, srh, caps, capLast, old, kstVars, dpc>>

\* lines 217-219: srh->uid = ssh->count++; list_insert_head; ssh->size++.
\* On a list that list_destroy has already run on the behaviour is
\* undefined: the thread faults or the stale list head still works.
\* faulty variant of line 217: the counter is not advanced
NextCountStuck == count

NextCount == count + 1

\* faulty variant of lines 217-219: list_insert_tail instead of list_insert_head
InsertRecordAtTail(t) ==
    /\ srhs' = [srhs EXCEPT ![srh[t]].uid = count]
    /\ uids' = Append(uids, count)
    /\ count' = count + 1
    /\ list' = Append(list, srh[t])
    /\ size' = size + 1

\* faulty variant of lines 217-219: ssh->size++ is missing
InsertRecordNoSize(t) ==
    /\ srhs' = [srhs EXCEPT ![srh[t]].uid = count]
    /\ uids' = Append(uids, count)
    /\ count' = count + 1
    /\ list' = list_insert_head(list, srh[t])
    /\ size' = size

InsertRecord(t) ==
    /\ srhs' = [srhs EXCEPT ![srh[t]].uid = count]
    /\ uids' = Append(uids, count)
    /\ count' = NextCount
    /\ list' = list_insert_head(list, srh[t])
    /\ size' = size + 1

AddInsert(t) ==
    /\ pc[t] = "insert"
    /\ lock = t
    /\ \/ /\ InsertRecord(t)
          /\ old' = [old EXCEPT ![t] = list]
          /\ pc' = [pc EXCEPT ![t] = "evict"]
       \/ /\ dpc \in {"exited", "destroyed"}
          /\ pc' = [pc EXCEPT ![t] = "oops"]
          /\ UNCHANGED <<count, size, list, heapVars, old>>
    /\ UNCHANGED <<cfgVars, lock, private, kspVars, aflags, excl, srh, caps, capLast, kstVars, dpc>>

\* lines 221-225: one test of the while condition, reading zfs_read_history
\* afresh, and one run of the loop body if it holds
\* faulty variants of line 221: the bound is off by one; 0 means "no limit"
EvictTestOffByOne(c) == size > c + 1
EvictTestZeroUnlimited(c) == c > 0 /\ size > c

EvictTest(c) == size > c

\* faulty variant of lines 222-224: the loop body removes nothing
EvictOneNoProgress ==
    /\ size' = size
    /\ list' = list
    /\ srhs' = srhs

\* faulty variant of lines 222-224: list_remove_head instead of list_remove_tail
EvictOneNewest ==
    /\ size' = size - 1
    /\ list' = IF list = <<>> THEN list ELSE Tail(list)
    /\ srhs' = kmem_free(srhs, list_head(list))

EvictOne ==
    /\ size' = size - 1
    /\ list' = list_remove_tail(list)
    /\ srhs' = kmem_free(srhs, list_tail(list))

AddEvict(t) ==
    /\ pc[t] = "evict"
    /\ lock = t
    /\ caps' = [caps EXCEPT ![t] = @ \cup {zfs_read_history}]
    /\ capLast' = [capLast EXCEPT ![t] = zfs_read_history]
    /\ IF EvictTest(zfs_read_history)
       THEN /\ EvictOne
            /\ UNCHANGED pc
       ELSE /\ pc' = [pc EXCEPT ![t] = "unlock"]
            /\ UNCHANGED <<size, list, srhs>>
    /\ UNCHANGED <<cfgVars, lock, count, private, kspVars, uids, aflags, excl, srh, old, kstVars, dpc>>

\* line 227: mutex_exit(&ssh->lock) and return
AddUnlock(t) ==
    /\ pc[t] = "unlock"
    /\ lock = t
    /\ lock' = Free
    /\ Return(t)
    /\ UNCHANGED <<cfgVars, count, size, list, private, kspVars, heapVars, kstVars, dpc>>

Add(t) ==
    \/ \E cached \in BOOLEAN : AddCall(t, cached)
    \/ AddGate1(t)
    \/ AddGate2(t)
    \/ AddAlloc(t)
    \/ AddLock(t)
    \/ AddInsert(t)
    \/ AddEvict(t)
    \/ AddUnlock(t)

\* the steps of a call that is under way, but for mutex_enter
AddRuns(t) ==
    \/ AddGate1(t)
    \/ AddGate2(t)
    \/ AddAlloc(t)
    \/ AddInsert(t)
    \/ AddEvict(t)
    \/ AddUnlock(t)

\* ---- spa_read_history_update (lines 109-130), called by the kstat
\* framework with ksp->ks_lock (= &ssh->lock, line 155) held
\* faulty variant of lines 118-121: "if" for "while", one record is removed
spa_read_history_update_once(rw) ==
    /\ IF rw = "KSTAT_WRITE" /\ list # <<>>
       THEN /\ list' = Tail(list)
            /\ size' = size - 1
            /\ srhs' = kmem_free(srhs, list_head(list))
       ELSE UNCHANGED <<list, size, srhs>>
    /\ ks_ndata' = size'
    /\ ks_data_size' = size' * RecordSize

\* faulty variant of lines 126-127: the kstat fields are set from ssh->size
\* as it was before the discard
spa_read_history_update_stale(rw) ==
    /\ IF rw = "KSTAT_WRITE"
       THEN /\ list' = <<>>
            /\ size' = size - Len(list)
            /\ srhs' = FreeAll(srhs, list)
       ELSE UNCHANGED <<list, size, srhs>>
    /\ ks_ndata' = size
    /\ ks_data_size' = size * RecordSize

\* faulty variant of lines 118-121: ssh->size-- is missing from the loop
spa_read_history_update_nosize(rw) ==
    /\ IF rw = "KSTAT_WRITE"
       THEN /\ list' = <<>>
            /\ size' = size
            /\ srhs' = FreeAll(srhs, list)
       ELSE UNCHANGED <<list, size, srhs>>
    /\ ks_ndata' = size'
    /\ ks_data_size' = size' * RecordSize

spa_read_history_update(rw) ==
    /\ IF rw = "KSTAT_WRITE"
       THEN /\ list' = <<>>
            /\ size' = size - Len(list)
            /\ srhs' = FreeAll(srhs, list)
       ELSE UNCHANGED <<list, size, srhs>>
    /\ ks_ndata' = size'
    /\ ks_data_size' = size' * RecordSize

\* The framework takes ks_lock and calls ks_update once for a read of the
\* kstat file (KSTAT_READ) or a write to it (KSTAT_WRITE).  No kstat exists
\* after kstat_delete.
KstatOpen(rw) ==
    /\ kpc = "idle"
    /\ dpc = "live"
    /\ lock = Free
    /\ lock' = KstatOwner
    /\ spa_read_history_update(rw)
    /\ kpc' = "session"
    /\ krw' = rw
    /\ UNCHANGED <<cfgVars, count, private, uids, thrVars, kn, out, dpc>>

\* ---- spa_read_history_addr (lines 89-103), called with the lock held.
\* Within one hold of the lock the framework asks for consecutive positions
\* n, n+1, ...: n == 0 can only be the first request; a read that resumes
\* an earlier one starts with n > 0.
\* list_prev() on a record that is no longer linked reads freed memory:
\* any pointer may come back.
\* faulty variant of lines 97-100: a NULL cursor starts over at list_tail
AddrResultWraps(zero) ==
    IF zero \/ private = NULL THEN {list_tail(list)}
    ELSE IF private \in Linked(list) THEN {list_prev(list, private)}
    ELSE {NULL} \cup Allocated

\* faulty variant of lines 97-100: list_head / list_next, newest first
AddrResultNewestFirst(zero) ==
    IF zero THEN {list_head(list)}
    ELSE IF private = NULL THEN {NULL}
    ELSE IF private \in Linked(list)
         THEN {IF IndexOf(list, private) = Len(list) THEN NULL ELSE list[IndexOf(list, private) + 1]}
    ELSE {NULL} \cup Allocated

AddrResult(zero) ==
    IF zero THEN {list_tail(list)}
    ELSE IF private = NULL THEN {NULL}
    ELSE IF private \in Linked(list) THEN {list_prev(list, private)}
    ELSE {NULL} \cup Allocated

KstatAddr(zero) ==
    /\ kpc = "session"
    /\ krw = "KSTAT_READ"
    /\ lock = KstatOwner
    /\ kn < MaxAddr
    /\ zero => kn = 0
    /\ kn' = kn + 1
    /\ \E r \in AddrResult(zero) :
        /\ private' = r
        /\ out' = IF zero THEN <<r>> ELSE IF out # <<>> THEN Append(out, r) ELSE out
    /\ UNCHANGED <<cfgVars, lock, count, size, list, kspVars, heapVars, thrVars, kpc, krw, dpc>>

\* The framework drops ks_lock when the read or write is over.
KstatClose ==
    /\ kpc = "session"
    /\ lock = KstatOwner
    /\ lock' = Free
    /\ kpc' = "idle"
    /\ krw' = "none"
    /\ kn' = 0
    /\ out' = <<>>
    /\ UNCHANGED <<cfgVars, count, size, list, private, kspVars, heapVars, thrVars, dpc>>

\* ---- spa_read_history_destroy (lines 165-187), one owner thread
\* lines 172-174: kstat_delete
DestroyKstatDelete ==
    /\ dpc = "live"
    /\ dpc' = "deleted"
    /\ UNCHANGED <<cfgVars, sshVars, kspVars, heapVars, thrVars, kstVars>>

\* lines 176-183: mutex_enter, the drain loop, list_destroy
\* faulty variant of lines 177-180: kmem_free is missing from the loop
DestroyDrainLeaks ==
    /\ dpc = "deleted"
    /\ lock = Free
    /\ lock' = DestroyOwner
    /\ list' = <<>>
    /\ size' = size - Len(list)
    /\ srhs' = srhs
    /\ dpc' = "drained"
    /\ UNCHANGED <<cfgVars, count, private, kspVars, uids, thrVars, kstVars>>

DestroyDrain ==
    /\ dpc = "deleted"
    /\ lock = Free
    /\ lock' = DestroyOwner
    /\ list' = <<>>
    /\ size' = size - Len(list)
    /\ srhs' = FreeAll(srhs, list)
    /\ dpc' = "drained"
    /\ UNCHANGED <<cfgVars, count, private, kspVars, uids, thrVars, kstVars>>

\* line 184: mutex_exit
DestroyUnlock ==
    /\ dpc = "drained"
    /\ lock = DestroyOwner
    /\ lock' = Free
    /\ dpc' = "exited"
    /\ UNCHANGED <<cfgVars, count, size, list, private, kspVars, heapVars, thrVars, kstVars>>

\* line 186: mutex_destroy
DestroyMutex ==
    /\ dpc = "exited"
    /\ dpc' = "destroyed"
    /\ UNCHANGED <<cfgVars, sshVars, kspVars, heapVars, thrVars, kstVars>>

\* ---- specifications
NextProducers ==
    \E t \in Threads : Add(t)

\* the buffer between spa_read_history_init and spa_read_history_destroy
Next ==
    \/ NextProducers
    \/ \E v \in 0 .. MaxCap : SetReadHistory(v)
    \/ \E v \in {0, 1} : SetReadHistoryHits(v)
    \/ \E rw \in {"KSTAT_READ", "KSTAT_WRITE"} : KstatOpen(rw)
    \/ \E zero \in BOOLEAN : KstatAddr(zero)
    \/ KstatClose

\* insertion, eviction and reset: producers, parameter writes and writes
\* to the kstat
NextInsertReset ==
    \/ NextProducers
    \/ \E v \in 0 .. MaxCap : SetReadHistory(v)
    \/ \E v \in {0, 1} : SetReadHistoryHits(v)
    \/ KstatOpen("KSTAT_WRITE")
    \/ KstatClose

\* read-out: producers and the kstat framework, the parameters as Init set them
NextReadOut ==
    \/ NextProducers
    \/ \E rw \in {"KSTAT_READ", "KSTAT_WRITE"} : KstatOpen(rw)
    \/ \E zero \in BOOLEAN : KstatAddr(zero)
    \/ KstatClose

NextDestroy ==
    \/ Next
    \/ DestroyKstatDelete
    \/ DestroyDrain
    \/ DestroyUnlock
    \/ DestroyMutex

NextAllocFail ==
    \/ Next
    \/ \E t \in Threads : AddAllocFail(t)

\* insertion, eviction, reset and teardown: producers recording reads that
\* missed the cache, capacity writes, writes to the kstat and
\* spa_read_history_destroy
NextTeardown ==
    \/ \E t \in Threads : AddCall(t, FALSE)
    \/ \E t \in Threads : AddRuns(t)
    \/ \E t \in Threads : AddLock(t)
    \/ \E v \in 0 .. MaxCap : SetReadHistory(v)
    \/ KstatOpen("KSTAT_WRITE")
    \/ KstatClose
    \/ DestroyKstatDelete
    \/ DestroyDrain
    \/ DestroyUnlock
    \/ DestroyMutex

\* the buffer's lifetime; kmem_zalloc(KM_PUSHPAGE) never returns NULL
Spec == Init /\ [][Next]_vars

\* concurrent producers alone: no parameter write, no kstat access
SpecProducers == Init /\ [][NextProducers]_vars

\* producers, parameter writes and kstat writes: no read session
SpecInsertReset == Init /\ [][NextInsertReset]_vars

\* producers and kstat sessions: no parameter write
SpecReadOut == Init /\ [][NextReadOut]_vars

\* the lifetime and the teardown by spa_read_history_destroy
SpecDestroy == Init /\ [][NextDestroy]_vars

\* the lifetime with an allocator that may return NULL
SpecAllocFail == Init /\ [][NextAllocFail]_vars

\* a pool created with zfs_read_history_hits set (cache hits are recorded)
InitHitsOn == Init /\ zfs_read_history_hits = 1

\* producers, capacity writes, kstat writes and the teardown
SpecTeardown == InitHitsOn /\ [][NextTeardown]_vars

\* Scheduling.  A thread that can run a step of spa_read_history_add is
\* eventually scheduled (weak fairness); mutex_enter (line 215) on a lock
\* that is released again and again eventually succeeds (strong fairness:
\* the kernel mutex hands the lock to a waiter); the kstat framework ends
\* the read or write it began and drops ks_lock.
Fairness ==
    /\ \A t \in Threads : WF_vars(AddRuns(t))
    /\ \A t \in Threads : SF_vars(AddLock(t))
    /\ WF_vars(KstatClose)

\* contention for the lock: producers recording reads that missed the cache
\* and a kstat reader or writer that takes and drops ks_lock
NextContend ==
    \/ \E t \in Threads : AddCall(t, FALSE)
    \/ \E t \in Threads : AddRuns(t)
    \/ \E t \in Threads : AddLock(t)
    \/ \E rw \in {"KSTAT_READ", "KSTAT_WRITE"} : KstatOpen(rw)
    \/ KstatClose

\* producers and a kstat reader or writer under fair scheduling
SpecContendFair == InitHitsOn /\ [][NextContend]_vars /\ Fairness

\* ---- properties
Min(a, b) == IF a <= b THEN a ELSE b
Uid(e) == srhs[e].uid
Evicted(t) == Linked(old[t]) \ Linked(list)

\* C1: when a spa_read_history_add call that inserted releases the lock,
\* ssh->size is at most the zfs_read_history value its last loop test read.
C1_SizeWithinCapacity ==
    [][\A t \in Threads :
        (pc[t] = "unlock" /\ pc'[t] = "idle")
            => (lock' = Free /\ size' <= capLast[t])]_vars

\* a call about to release the lock after evicting down to a capacity that
\* was changed while the loop ran
C1_Witness ==
    \E t \in Threads :
        /\ pc[t] = "unlock"
        /\ size = capLast[t]
        /\ capLast[t] >= 1
        /\ Len(old[t]) >= size
        /\ Cardinality(caps[t]) = 2

\* C2: the uids are strictly increasing in insertion order, whatever
\* evictions and write resets came between, and ssh->count stays above
\* every uid handed out.
C2_UidsStrictlyIncreasing ==
    /\ \A i, j \in 1 .. Len(uids) : i < j => uids[i] < uids[j]
    /\ \A i \in 1 .. Len(uids) : uids[i] < count

\* three uids handed out, the first two records gone again, the counter at 3
C2_Witness ==
    /\ Len(uids) >= 3
    /\ Len(list) = 1
    /\ Cardinality({e \in Records : srhs[e].st = "freed"}) >= 2
    /\ zfs_read_history = MaxCap

\* C3 as stated: a read-out from n == 0 starts at the most recently
\* inserted record and the uids it yields decrease.
C3_NewestFirst ==
    (kpc = "session" /\ out # <<>>) =>
        /\ out[1] = list_head(list)
        /\ \A i, j \in 1 .. Len(out) :
              (i < j /\ out[i] # NULL /\ out[j] # NULL) => Uid(out[i]) > Uid(out[j])

\* C3 as the code has it: a read-out from n == 0 starts at list_tail, the
\* oldest record held, and each advance yields the next-newer record, so
\* the records come out in insertion order with increasing uids; NULL
\* follows the newest.
C3_OldestFirst ==
    (kpc = "session" /\ out # <<>>) =>
        /\ \A i \in 1 .. Len(out) :
              out[i] = IF i <= Len(list) THEN list[Len(list) - i + 1] ELSE NULL
        /\ \A i, j \in 1 .. Len(out) :
              (i < j /\ out[i] # NULL /\ out[j] # NULL) => Uid(out[i]) < Uid(out[j])

\* a session that has read two records of a buffer holding two
C3_Witness ==
    /\ kpc = "session"
    /\ Len(list) = 2
    /\ Len(out) >= 2
    /\ out[1] # NULL
    /\ out[2] # NULL

\* C4: eviction takes the oldest records only.  When the call is about
\* to release the lock the list is the new record followed by the newest of
\* the records held before, every record kept has a larger uid than every
\* record the call evicted, and if every loop test read the same capacity c
\* the list holds min(c, previous size + 1) records.
C4_EvictsOldest ==
    \A t \in Threads :
        pc[t] = "unlock" =>
            /\ list = SubSeq(<<srh[t]>> \o old[t], 1, size)
            /\ \A k \in Linked(list), e \in Evicted(t) : Uid(k) > Uid(e)
            /\ \A c \in 0 .. MaxCap :
                    caps[t] = {c} => Len(list) = Min(c, Len(old[t]) + 1)

\* capacity 2, two records held, a third inserted: the oldest is evicted
C4_Witness ==
    \E t \in Threads :
        /\ pc[t] = "unlock"
        /\ caps[t] = {2}
        /\ Len(old[t]) = 2
        /\ list = <<srh[t], old[t][1]>>
        /\ srhs[old[t][2]].st = "freed"

\* C5: no record in the buffer (indeed no record at all) belongs to a call
\* that saw ARC_CACHED with zfs_read_history_hits == 0; a call that sees
\* ARC_CACHED with zfs_read_history_hits != 0 goes on to allocate; and when
\* such a call, all of whose loop tests read a capacity > 0, releases the
\* lock its record is in the buffer, at the head.
C5_CacheHitGate ==
    /\ [](\A e \in Records : ~srhs[e].excl)
    /\ [][\A t \in Threads :
            (pc[t] = "gate2" /\ pc'[t] # "gate2" /\ aflags[t]) =>
                IF zfs_read_history_hits = 0
                THEN pc'[t] = "idle" /\ UNCHANGED <<sshVars, heapVars>>
                ELSE pc'[t] = "alloc"]_vars
    /\ [][\A t \in Threads :
            (pc[t] = "unlock" /\ pc'[t] = "idle" /\ srhs[srh[t]].cached /\ ~(0 \in caps[t]))
                => list_head(list') = srh[t]]_vars

\* a cache-hit record in the buffer while a later cache-hit call is refused
C5_Witness ==
    \E t, u \in Threads :
        /\ pc[t] = "unlock"
        /\ srhs[srh[t]].cached
        /\ list_head(list) = srh[t]
        /\ pc[u] = "gate2"
        /\ aflags[u]
        /\ zfs_read_history_hits = 0

\* C6: a call that inserts into a non-empty buffer while zfs_read_history
\* is 0 (every loop test reads 0) evicts everything, its own record
\* included: size is 0 and the list empty when it is about to release the
\* lock, and ssh->count stands one above the value the call found.
C6_ZeroCapacityEvictsAll ==
    \A t \in Threads :
        (pc[t] = "unlock" /\ caps[t] = {0} /\ old[t] # <<>>) =>
            /\ size = 0
            /\ list = <<>>
            /\ \A e \in Linked(old[t]) \cup {srh[t]} : srhs[e].st = "freed"
            /\ count = Uid(srh[t]) + 1
            /\ Len(uids) = count

\* such a call, with two records held before it
C6_Witness ==
    \E t \in Threads :
        /\ pc[t] = "unlock"
        /\ caps[t] = {0}
        /\ Len(old[t]) = 2
        /\ size = 0

\* C7: producers alone, capacity fixed at C > 0, all calls returned: size is
\* min(C, accepted calls) and the length of the list, the uids in the
\* buffer are pairwise distinct and the uids handed out are 0..accepted-1,
\* each once.
Accepted == Cardinality(Allocated)

C7_ConcurrentProducers ==
    (zfs_read_history > 0 /\ \A t \in Threads : pc[t] = "idle") =>
        /\ size = Min(zfs_read_history, Accepted)
        /\ size = Len(list)
        /\ \A i, j \in 1 .. Len(list) : i # j => Uid(list[i]) # Uid(list[j])
        /\ Len(uids) = Accepted
        /\ {uids[i] : i \in 1 .. Len(uids)} = 0 .. Accepted - 1
        /\ count = Accepted

\* all calls returned, more accepted than the capacity holds
C7_Witness ==
    /\ \A t \in Threads : pc[t] = "idle"
    /\ zfs_read_history = 2
    /\ Accepted = 3
    /\ size = 2

\* C8 as stated: once spa_read_history_destroy has run list_destroy and
\* released the lock, no producer is inside its critical section or has
\* faulted, and once it has returned no record is left allocated.
C8_NoUseAfterDestroy ==
    /\ dpc \in {"exited", "destroyed"} =>
            \A t \in Threads : pc[t] \notin {"insert", "evict", "unlock", "oops"}
    /\ dpc = "destroyed" =>
            \A t \in Threads : pc[t] = "idle" => \A e \in Records : srhs[e].st # "alloc"

\* C9 as stated: a call whose allocation failed returns to its caller.
C9_AllocFailureDropsEvent ==
    \A t \in Threads : pc[t] # "oops"

\* C10: a write to the kstat empties the list, frees every record and
\* sets size to 0 whatever zfs_read_history is; ssh->count is untouched,
\* so it stays above every uid handed out.
C10_WriteDiscardsAll ==
    /\ [][(kpc = "idle" /\ kpc' = "session" /\ krw' = "KSTAT_WRITE") =>
            /\ list' = <<>>
            /\ size' = 0
            /\ count' = count
            /\ \A e \in Linked(list) : srhs'[e].st = "freed"
            /\ \A e \in Records : srhs'[e].st # "alloc" \/ (\E t \in Threads : srh[t] = e)]_vars
    /\ [](\A i \in 1 .. Len(uids) : uids[i] < count)

\* a write has just discarded two records while the capacity is 2
C10_Witness ==
    /\ kpc = "session"
    /\ krw = "KSTAT_WRITE"
    /\ zfs_read_history = 2
    /\ count = 2
    /\ list = <<>>
    /\ Cardinality({e \in Records : srhs[e].st = "freed"}) = 2
\* C11: whenever ssh->lock is free before spa_read_history_destroy has
\* drained the buffer, ssh->size is the number of records linked in
\* ssh->list; the ASSERT3U(ssh->size, ==, 0) after the drain loop of a
\* kstat write (line 123) and of spa_read_history_destroy (line 182) holds.
C11_SizeIsListLength ==
    /\ []((lock = Free /\ dpc \in {"live", "deleted"}) => size = Len(list))
    /\ [][(kpc = "idle" /\ kpc' = "session" /\ krw' = "KSTAT_WRITE")
            => (list' = <<>> /\ size' = 0)]_vars
    /\ [][(dpc = "deleted" /\ dpc' = "drained")
            => (list' = <<>> /\ size' = 0)]_vars

\* the lock is free on a buffer that holds two records after an eviction
\* or a write reset has removed a third
C11_Witness ==
    /\ lock = Free
    /\ dpc = "live"
    /\ size = 2
    /\ Len(list) = 2
    /\ count = MaxRecords
    /\ \A t \in Threads : pc[t] = "idle"
\* C12: a spa_read_history_add call is skipped by the first gate exactly
\* when zfs_read_history == 0 and ssh->size == 0, and by the second exactly
\* when zfs_read_history_hits == 0 and the event has ARC_CACHED; a skipped
\* call returns at once and leaves the lock, the list, ssh->size,
\* ssh->count, ssh->private, the kstat fields and every record as they
\* were (no uid is consumed, nothing is allocated, nothing is trimmed); a
\* call that has not passed mutex_enter never owns the lock.
C12_SkippedCallChangesNothing ==
    /\ [](\A t \in Threads :
            pc[t] \in {"idle", "gate1", "gate2", "alloc", "lock"} => lock # t)
    /\ [][\A t \in Threads :
            (pc[t] = "gate1" /\ pc'[t] # "gate1") =>
                IF zfs_read_history = 0 /\ size = 0
                THEN pc'[t] = "idle" /\ UNCHANGED <<sshVars, kspVars, heapVars>>
                ELSE pc'[t] = "gate2"]_vars
    /\ [][\A t \in Threads :
            (pc[t] = "gate2" /\ pc'[t] # "gate2") =>
                IF zfs_read_history_hits = 0 /\ aflags[t]
                THEN pc'[t] = "idle" /\ UNCHANGED <<sshVars, kspVars, heapVars>>
                ELSE pc'[t] = "alloc"]_vars

\* a cache-hit event at the second gate with zfs_read_history_hits == 0
\* while the buffer holds two records and the capacity has been lowered to 1
C12_Witness ==
    \E t \in Threads :
        /\ pc[t] = "gate2"
        /\ aflags[t]
        /\ zfs_read_history_hits = 0
        /\ lock = Free
        /\ size = 2
        /\ zfs_read_history = 1
\* C13: a write to zfs_read_history changes nothing of the buffer: the
\* lock, the list, ssh->size, ssh->count and the records stay as they were,
\* so ssh->size may stand above the new capacity.  Every test of the while
\* loop at line 221 compares ssh->size with the value zfs_read_history has
\* at that moment (none was captured at init), and a call that inserted
\* releases the lock with ssh->size at most the value its last test read.
C13_CapacityChangeIsNotEviction ==
    /\ [][zfs_read_history' # zfs_read_history
            => UNCHANGED <<sshVars, kspVars, heapVars>>]_vars
    /\ [][\A t \in Threads :
            (pc[t] = "evict" /\ (pc'[t] # "evict" \/ size' # size)) =>
                /\ capLast'[t] = zfs_read_history
                /\ IF size > zfs_read_history
                   THEN pc'[t] = "evict" /\ size' = size - 1
                   ELSE pc'[t] = "unlock" /\ size' = size]_vars
    /\ [][\A t \in Threads :
            (pc[t] = "unlock" /\ pc'[t] = "idle") => size' <= capLast[t]]_vars

\* no call is in flight, the lock is free and the buffer still holds two
\* records although the capacity has been lowered to 0
C13_Witness ==
    /\ \A t \in Threads : pc[t] = "idle"
    /\ lock = Free
    /\ kpc = "idle"
    /\ zfs_read_history = 0
    /\ size = 2
    /\ Len(list) = 2
\* C14: from the spa_read_history_update call that opens a kstat session
\* until the session drops the lock, ks_ndata is ssh->size and
\* ks_data_size is ssh->size * sizeof(spa_read_history_t); after a write
\* both are 0; and a read-out from n == 0 yields a record at each of its
\* first ks_ndata positions and NULL after them.
C14_KstatSizeReported ==
    kpc = "session" =>
        /\ ks_ndata = size
        /\ ks_data_size = size * RecordSize
        /\ ks_ndata = Len(list)
        /\ krw = "KSTAT_WRITE" => (ks_ndata = 0 /\ ks_data_size = 0)
        /\ \A i \in 1 .. Len(out) : (out[i] # NULL) <=> (i <= ks_ndata)

\* a read session on a buffer of two records has read both and then NULL
C14_Witness ==
    /\ kpc = "session"
    /\ krw = "KSTAT_READ"
    /\ ks_ndata = 2
    /\ ks_data_size = 2 * RecordSize
    /\ Len(out) = 3
    /\ out[2] # NULL
    /\ out[3] = NULL

\* a step that is a spa_read_history_addr call; one with n == 0
AddrCall == kpc = "session" /\ kn' = kn + 1
AddrCallZero == AddrCall /\ kn = 0 /\ out' # <<>>

\* C15: the read session as a state machine.  A call with n == 0 sets the
\* cursor to list_tail (NULL on an empty buffer); the calls that follow
\* under the same hold of the lock return records of the buffer, no record
\* twice, and once the read-out has returned NULL it has returned every
\* record held, ssh->size of them; a call with n > 0 on a NULL cursor
\* returns NULL, so after the first NULL every later return is NULL, and
\* only a call with n == 0 takes the cursor from NULL to a record.
C15_ReadSession ==
    /\ []((kpc = "session" /\ out # <<>>) =>
            /\ private = out[Len(out)]
            /\ list = <<>> => out[1] = NULL
            /\ \A i \in 1 .. Len(out) : out[i] # NULL => out[i] \in Linked(list)
            /\ \A i, j \in 1 .. Len(out) : (i < j /\ out[i] # NULL) => out[i] # out[j]
            /\ \A i, j \in 1 .. Len(out) : (i < j /\ out[i] = NULL) => out[j] = NULL
            /\ out[Len(out)] = NULL =>
                    /\ {out[i] : i \in 1 .. Len(out)} \ {NULL} = Linked(list)
                    /\ Cardinality({i \in 1 .. Len(out) : out[i] # NULL}) = size)
    /\ [][AddrCallZero => private' = list_tail(list)]_vars
    /\ [][(AddrCall /\ ~AddrCallZero /\ private = NULL) => private' = NULL]_vars
    /\ [][(private = NULL /\ private' # NULL) => AddrCallZero]_vars

\* a read-out of a buffer of one record: the record, NULL, and NULL again
C15_Witness ==
    /\ kpc = "session"
    /\ size = 1
    /\ Len(out) = 3
    /\ out[1] = list[1]
    /\ out[2] = NULL
    /\ out[3] = NULL
    /\ private = NULL
\* C16 as stated: while a kstat session lasts it owns ssh->lock and the
\* list, ssh->size, ssh->count and the linked records do not change, and at every
\* spa_read_history_addr call with n > 0 the saved cursor ssh->private is
\* NULL or a record linked in the list.
C16_NoMutationInSession ==
    /\ [](kpc = "session" => lock = KstatOwner)
    /\ [][(kpc = "session" /\ kpc' = "session")
            => (UNCHANGED <<list, size, count>>
                /\ \A e \in Linked(list) : srhs'[e] = srhs[e])]_vars
    /\ [][(AddrCall /\ ~AddrCallZero)
            => (private = NULL \/ private \in Linked(list))]_vars
\* C17: under fair scheduling every spa_read_history_add call that has
\* started returns, every kstat session drops the lock, and whoever owns
\* the lock can take a step (no deadlock); each run of the loop body at
\* lines 222-224 finds a record to remove, so a call removes at most the
\* records held before it and its own.
C17_NoIndefiniteBlocking ==
    /\ \A t \in Threads : (pc[t] # "idle") ~> (pc[t] = "idle")
    /\ (kpc = "session") ~> (kpc = "idle")
    /\ [](\A t \in Threads : lock = t => pc[t] \in {"insert", "evict", "unlock"})
    /\ [](lock = KstatOwner => kpc = "session")
    /\ [](\A t \in Threads :
            (pc[t] = "evict" /\ size > zfs_read_history) =>
                (list # <<>> /\ Len(list) <= Len(old[t]) + 1))

\* a kstat session owns the lock while one producer waits in mutex_enter
\* and another is about to
C17_Witness ==
    /\ kpc = "session"
    /\ lock = KstatOwner
    /\ \E t, u \in Threads : t # u /\ pc[t] = "lock" /\ pc[u] = "alloc"
\* the records a step frees
FreedByStep == {e \in Records : srhs[e].st # "freed" /\ srhs'[e].st = "freed"}

\* C18: a record is linked only while allocated and is linked once; a
\* step that frees records frees allocated records only, unlinks each of
\* them from the list, and is a run of the loop body of the call that owns
\* the lock (eviction), a write to the kstat, or the drain of
\* spa_read_history_destroy; a freed record stays freed.  The drain runs
\* after kstat_delete, no kstat session opens after kstat_delete, and the
\* drain ends, also on an empty buffer, with the list empty, ssh->size 0 and
\* no record allocated but those of calls still in flight: none, if no
\* call is in flight.  mutex_exit and mutex_destroy change nothing of it.
C18_RecordLifetime ==
    /\ [](\A i, j \in 1 .. Len(list) :
            srhs[list[i]].st = "alloc" /\ (i # j => list[i] # list[j]))
    /\ [][\A e \in FreedByStep :
            /\ srhs[e].st = "alloc"
            /\ e \in Linked(list)
            /\ e \notin Linked(list')
            /\ \/ lock \in Threads /\ pc[lock] = "evict" /\ FreedByStep = {list_tail(list)}
               \/ kpc = "idle" /\ krw' = "KSTAT_WRITE" /\ FreedByStep = Linked(list)
               \/ dpc = "deleted" /\ dpc' = "drained" /\ FreedByStep = Linked(list)]_vars
    /\ [][\A e \in Records : srhs[e].st = "freed" => srhs'[e] = srhs[e]]_vars
    /\ [][(kpc = "idle" /\ kpc' = "session") => dpc = "live"]_vars
    /\ [][(dpc # "drained" /\ dpc' = "drained") =>
            /\ dpc = "deleted"
            /\ list' = <<>>
            /\ size' = 0
            /\ \A e \in Records : srhs'[e].st = "alloc" => \E t \in Threads : srh[t] = e
            /\ (\A t \in Threads : pc[t] = "idle") =>
                    \A e \in Records : srhs'[e].st # "alloc"]_vars
    /\ [][(dpc \in {"drained", "exited"} /\ dpc' # dpc)
            => UNCHANGED <<count, size, list, srhs>>]_vars

\* spa_read_history_destroy has drained a buffer of two records, a third
\* was removed before, and no call is in flight
C18_Witness ==
    /\ dpc = "drained"
    /\ \A t \in Threads : pc[t] = "idle"
    /\ size = 0
    /\ zfs_read_history = 2
    /\ \A e \in Records : srhs[e].st = "freed"
\* C19: whenever ssh->lock is free the buffer holds exactly the records
\* with the uids count - size .. count - 1, linked from head to tail in
\* decreasing order: the record at position i from the head has the uid
\* count - i.
C19_ContiguousUids ==
    lock = Free =>
        /\ Len(list) = size
        /\ size <= count
        /\ \A i \in 1 .. Len(list) : Uid(list[i]) = count - i
        /\ {Uid(e) : e \in Linked(list)} = (count - size) .. (count - 1)

\* two records held, with the uids 2 and 1, after the record with uid 0
\* was evicted; no call in flight
C19_Witness ==
    /\ lock = Free
    /\ \A t \in Threads : pc[t] = "idle"
    /\ count = 3
    /\ size = 2
    /\ Uid(list[1]) = 2
    /\ Uid(list[2]) = 1
    /\ zfs_read_history = 2
\* C20 as stated: whenever ssh->lock is free the saved cursor ssh->private
\* is NULL or a record that is allocated and linked in the list.
C20_CursorNeverDangling ==
    lock = Free =>
        \/ private = NULL
        \/ private \in Linked(list) /\ srhs[private].st = "alloc"
====
